---------------------------- MODULE Spec2Model ----------------------------
(***************************************************************************)
(* Model of main/vmWatch.go: the VMWatch supervisor executeVMWatch, the    *)
(* external killVMWatch, the watcher processes they act on, and the        *)
(* result channel executeVMWatch reports to.                               *)
(*                                                                         *)
(* executeVMWatch is one sequential goroutine; pc is its position.  The    *)
(* operating system (process output, process exit), the caller of          *)
(* killVMWatch and the reader of the result channel run concurrently.      *)
(* Preconditions of the model: the settings pointer s is non-nil (the      *)
(* function dereferences it in setupVMWatchCommand), and the result        *)
(* channel is empty when executeVMWatch is invoked.                        *)
(*                                                                         *)
(* The second part of the file, the health probes, is modelled by cfg,     *)
(* probe and evald: NewHealthProbe builds the probe from the settings and  *)
(* evaluate maps what the network does to a HealthStatus and an error.     *)
(* Strings that the code builds or inspects are sequences of characters.   *)
(***************************************************************************)
EXTENDS Integers, Sequences, FiniteSets, TLC

\* The attempt budget: "we will attempt at most 3 times to run the process".
VMWatchMaxProcessAttempts == 3

\* Capacity of vmWatchResultChannel (created by the caller).
ChanCapacity == 1

\* Number of process ids the operating system hands out (ids may be reused).
MaxPid == 1

\* Number of killVMWatch calls the external caller makes.
MaxKills == 2

\* Number of killVMWatch calls in the specification with fairness.
MaxFairKills == 1

NoPid == -1

Attempts == 1..VMWatchMaxProcessAttempts
Pids == 1..MaxPid

\* A *exec.Cmd the external caller may pass to killVMWatch: nil, a command
\* the caller built itself and never started, or the command of attempt k.
NilCmd == [ref |-> "nil", n |-> 0]
OwnCmd == [ref |-> "own", n |-> 0]
CmdRef(k) == [ref |-> "cmd", n |-> k]
KillArgs == {NilCmd, OwnCmd} \cup {CmdRef(k) : k \in Attempts}

\* The exec.Cmd of one attempt.  made: setupVMWatchCommand returned it;
\* process: cmd.Process (NoPid stands for nil); state: of the OS process;
\* exit: what cmd.Wait reports.
NoCmd == [made |-> FALSE, process |-> NoPid, state |-> "none", exit |-> "none"]

\* The value of vmWatchErr.  stamp is the formatted time.Now() of the
\* attempt that recorded it, pid the %d of pid, err the wrapped error,
\* output combinedOutput.String() (the set of attempts whose process wrote
\* into the buffer), empty where the format has no Output part.
NilErr == [kind |-> "nil", stamp |-> 0, pid |-> NoPid, err |-> "nil", output |-> {}]

VARIABLES
    pc,              \* position of executeVMWatch
    i,               \* the loop variable
    pid,             \* the local pid
    vmWatchErr,      \* the local vmWatchErr
    combinedOutput,  \* the local buffer: attempts whose process wrote into it
    cmds,            \* the exec.Cmd of each attempt
    channel,         \* vmWatchResultChannel's buffer
    sent,            \* history: every message executeVMWatch sent
    outcomes,        \* history: how each finished attempt ended
    kills,           \* history: the killVMWatch calls made
    cfg,             \* the handler settings: protocol, port, requestPath
    probe,           \* the HealthProbe NewHealthProbe returned
    evald            \* the last evaluate: what the network did, what it returned

probing == <<cfg, probe, evald>>

vars == <<pc, i, pid, vmWatchErr, combinedOutput, cmds, channel, sent, outcomes, kills,
          cfg, probe, evald>>

supervisor == <<pc, i, pid, vmWatchErr, combinedOutput, channel, sent, outcomes>>

SupervisorInit ==
    /\ pc = "NotStarted"
    /\ i = 0
    /\ pid = NoPid
    /\ vmWatchErr = NilErr
    /\ combinedOutput = {}
    /\ cmds = [k \in Attempts |-> NoCmd]
    /\ channel = <<>>
    /\ sent = <<>>
    /\ outcomes = <<>>
    /\ kills = <<>>

\* Settings with no protocol, port or request path.
UnsetCfg == [protocol |-> <<>>, port |-> 0, requestPath |-> <<>>]

NoProbe == [kind |-> "none", Address |-> <<>>, client |-> "none"]

NoEval == [kind |-> "none", net |-> "none", isTCPConn |-> FALSE, request |-> "none",
           code |-> 0, body |-> "none", status |-> "none", err |-> "none"]

Init ==
    /\ SupervisorInit
    /\ cfg = UnsetCfg
    /\ probe = NoProbe
    /\ evald = NoEval

-----------------------------------------------------------------------------
(* executeVMWatch *)

\* Lines 52-60: the locals are initialised and the deferred send registered.
Run ==
    /\ pc = "NotStarted"
    /\ pc' = "LoopCheck"
    /\ i' = 1
    /\ pid' = NoPid
    /\ vmWatchErr' = NilErr
    /\ combinedOutput' = {}
    /\ UNCHANGED <<cmds, channel, sent, outcomes, kills, probing>>

\* Variant of LoopCond: the budget is compared with < instead of <=.
LoopCondOffByOne(n) == n < VMWatchMaxProcessAttempts

\* Line 63: the loop condition.
LoopCond(n) == n <= VMWatchMaxProcessAttempts

LoopEnter ==
    /\ pc = "LoopCheck"
    /\ LoopCond(i)
    /\ pc' = "Setup"
    /\ UNCHANGED <<i, pid, vmWatchErr, combinedOutput, cmds, channel, sent, outcomes, kills, probing>>

\* Variant of LoopExit: the function returns without the deferred send.
LoopExitNoSend ==
    /\ pc = "LoopCheck"
    /\ ~LoopCond(i)
    /\ pc' = "Returned"
    /\ UNCHANGED <<i, pid, vmWatchErr, combinedOutput, cmds, channel, sent, outcomes, kills, probing>>

LoopExit ==
    /\ pc = "LoopCheck"
    /\ ~LoopCond(i)
    /\ pc' = "Defer"
    /\ UNCHANGED <<i, pid, vmWatchErr, combinedOutput, cmds, channel, sent, outcomes, kills, probing>>

\* Variant of SetupError: the setup error is not stored and vmWatchErr keeps
\* the value of the attempt before.
SetupErrorNotStored(p) == vmWatchErr

\* Lines 65-70: setupVMWatchCommand fails (GetProcessDirectory cannot resolve
\* the executable's directory); no command is returned.
SetupError(p) ==
    [kind |-> "setup", stamp |-> i, pid |-> p, err |-> "abs", output |-> {}]

\* Variant of SetupFail: a setup failure returns instead of continuing.
SetupFailReturns ==
    /\ pc = "Setup"
    /\ vmWatchErr' = SetupError(pid)
    /\ outcomes' = Append(outcomes, "SetupFailed")
    /\ i' = i + 1
    /\ pc' = "Defer"
    /\ UNCHANGED <<pid, combinedOutput, cmds, channel, sent, kills, probing>>

\* Variant of SetupFail: a setup failure is retried without using the budget.
SetupFailNoAdvance ==
    /\ pc = "Setup"
    /\ vmWatchErr' = SetupError(pid)
    /\ pc' = "LoopCheck"
    /\ UNCHANGED <<i, outcomes, pid, combinedOutput, cmds, channel, sent, kills, probing>>

SetupFail ==
    /\ pc = "Setup"
    /\ vmWatchErr' = SetupError(pid)
    /\ outcomes' = Append(outcomes, "SetupFailed")
    /\ i' = i + 1
    /\ pc' = "LoopCheck"
    /\ UNCHANGED <<pid, combinedOutput, cmds, channel, sent, kills, probing>>

\* Lines 65, 116-136: setupVMWatchCommand returns a new exec.Cmd, not started.
NewCmd == [made |-> TRUE, process |-> NoPid, state |-> "none", exit |-> "none"]

SetupOk ==
    /\ pc = "Setup"
    /\ cmds' = [cmds EXCEPT ![i] = NewCmd]
    /\ pc' = "Start"
    /\ UNCHANGED <<i, pid, vmWatchErr, combinedOutput, channel, sent, outcomes, kills, probing>>

\* Lines 82-86: pid after cmd.Start().
PidOf(c) == IF c.process = NoPid THEN NoPid ELSE c.process

StartError(p, out) ==
    [kind |-> "start", stamp |-> i, pid |-> p, err |-> "fork/exec", output |-> out]

\* Variant of StartFail: a start failure returns instead of continuing.
StartFailReturns ==
    /\ pc = "Start"
    /\ combinedOutput' = {}
    /\ pid' = PidOf(cmds[i])
    /\ vmWatchErr' = StartError(pid', combinedOutput')
    /\ outcomes' = Append(outcomes, "StartFailed")
    /\ i' = i + 1
    /\ pc' = "Defer"
    /\ UNCHANGED <<cmds, channel, sent, kills, probing>>

\* Lines 76-90: the buffer is reset, cmd.Start() fails: os.StartProcess
\* returned an error and cmd.Process stays nil.
StartFail ==
    /\ pc = "Start"
    /\ combinedOutput' = {}
    /\ pid' = PidOf(cmds[i])
    /\ vmWatchErr' = StartError(pid', combinedOutput')
    /\ outcomes' = Append(outcomes, "StartFailed")
    /\ i' = i + 1
    /\ pc' = "LoopCheck"
    /\ UNCHANGED <<cmds, channel, sent, kills, probing>>

\* Variant of StartOk: the buffer is not reset before the start.
StartOkNoReset ==
    /\ pc = "Start"
    /\ \E p \in Pids :
         /\ cmds' = [cmds EXCEPT ![i].process = p, ![i].state = "running"]
         /\ pid' = PidOf(cmds'[i])
    /\ pc' = "Wait"
    /\ UNCHANGED <<i, vmWatchErr, combinedOutput, channel, sent, outcomes, kills, probing>>

\* Lines 76-92: the buffer is reset, cmd.Start() succeeds: the process runs
\* with some process id p and cmd.Process is set.
StartOk ==
    /\ pc = "Start"
    /\ \E p \in Pids :
         /\ cmds' = [cmds EXCEPT ![i].process = p, ![i].state = "running"]
         /\ pid' = PidOf(cmds'[i])
    /\ combinedOutput' = {}
    /\ pc' = "Wait"
    /\ UNCHANGED <<i, vmWatchErr, channel, sent, outcomes, kills, probing>>

\* Variant of ExitError: an exit for which cmd.Wait reports nil records nil.
ExitErrorNilOnSuccess(p, e, out) ==
    IF e = "nil" THEN NilErr
    ELSE [kind |-> "exit", stamp |-> i, pid |-> p, err |-> e, output |-> out]

\* Line 96: fmt.Errorf gives a non-nil error also when it wraps a nil err.
ExitError(p, e, out) ==
    [kind |-> "exit", stamp |-> i, pid |-> p, err |-> e, output |-> out]

\* Variant of WaitReturn: the loop goes on without waiting for the process.
WaitReturnNoWait ==
    /\ pc = "Wait"
    /\ cmds' = [cmds EXCEPT ![i].state =
                   IF cmds[i].state = "exited" THEN "reaped" ELSE cmds[i].state]
    /\ vmWatchErr' = ExitError(pid, cmds[i].exit, combinedOutput)
    /\ outcomes' = Append(outcomes, "Exited")
    /\ i' = i + 1
    /\ pc' = "LoopCheck"
    /\ UNCHANGED <<pid, combinedOutput, channel, sent, kills, probing>>

\* Variant of WaitReturn: a killed process ends the retry loop.
WaitReturnStopsOnKill ==
    /\ pc = "Wait"
    /\ cmds[i].state = "exited"
    /\ cmds' = [cmds EXCEPT ![i].state = "reaped"]
    /\ vmWatchErr' = ExitError(pid, cmds[i].exit, combinedOutput)
    /\ outcomes' = Append(outcomes, "Exited")
    /\ i' = i + 1
    /\ pc' = IF cmds[i].exit = "signal: killed" THEN "Defer" ELSE "LoopCheck"
    /\ UNCHANGED <<pid, combinedOutput, channel, sent, kills, probing>>

\* Lines 95-98: cmd.Wait() returns once the process has exited; it reaps the
\* process and reports how it ended (nil for exit status 0).
WaitReturn ==
    /\ pc = "Wait"
    /\ cmds[i].state = "exited"
    /\ cmds' = [cmds EXCEPT ![i].state = "reaped"]
    /\ vmWatchErr' = ExitError(pid, cmds[i].exit, combinedOutput)
    /\ outcomes' = Append(outcomes, "Exited")
    /\ i' = i + 1
    /\ pc' = "LoopCheck"
    /\ UNCHANGED <<pid, combinedOutput, channel, sent, kills, probing>>

\* Lines 57-60: the deferred function sends the result; the send blocks while
\* the channel's buffer is full.
Result(e) == [Status |-> "Failed", Error |-> e]

SendResult ==
    /\ pc = "Defer"
    /\ Len(channel) < ChanCapacity
    /\ channel' = Append(channel, Result(vmWatchErr))
    /\ sent' = Append(sent, Result(vmWatchErr))
    /\ pc' = "Returned"
    /\ UNCHANGED <<i, pid, vmWatchErr, combinedOutput, cmds, outcomes, kills, probing>>

-----------------------------------------------------------------------------
(* The environment: the watcher processes, the channel's reader, and the  *)
(* caller of killVMWatch.                                                  *)

\* A running watcher process writes to its stdout or stderr, both of which
\* are the one buffer combinedOutput (lines 77-78).
ProcessOutput(k) ==
    /\ cmds[k].state = "running"
    /\ k \notin combinedOutput
    /\ combinedOutput' = combinedOutput \cup {k}
    /\ UNCHANGED <<pc, i, pid, vmWatchErr, cmds, channel, sent, outcomes, kills, probing>>

\* A running watcher process exits by itself, with status 0 or not.
ProcessExit(k) ==
    /\ cmds[k].state = "running"
    /\ \E e \in {"nil", "exit status 1"} :
         cmds' = [cmds EXCEPT ![k].state = "exited", ![k].exit = e]
    /\ UNCHANGED <<pc, i, pid, vmWatchErr, combinedOutput, channel, sent, outcomes, kills, probing>>

\* The reader of vmWatchResultChannel takes a message.
Receive ==
    /\ channel # <<>>
    /\ channel' = Tail(channel)
    /\ UNCHANGED <<pc, i, pid, vmWatchErr, combinedOutput, cmds, sent, outcomes, kills, probing>>

\* The exec.Cmd an argument of killVMWatch points to.
CmdOf(h) == IF h.ref = "cmd" THEN cmds[h.n] ELSE NoCmd

\* Variant of NotRunningCheck: only cmd == nil is tested.
NotRunningCheckNilOnly(h) == h = NilCmd

\* Line 102: cmd == nil || cmd.Process == nil.
NotRunningCheck(h) == h = NilCmd \/ CmdOf(h).process = NoPid

\* Lines 101-114 with os.Process.Kill: a process that was already waited on
\* gives os.ErrProcessDone and no signal is sent; otherwise SIGKILL is sent
\* (to a running process or to one that exited and is not yet reaped).
KillReturn(h) ==
    IF NotRunningCheck(h) THEN "nil"
    ELSE IF CmdOf(h).state = "reaped" THEN "os: process already finished"
    ELSE "nil"

KillSignals(h) == ~NotRunningCheck(h) /\ CmdOf(h).state # "reaped"

\* Variant of KillVMWatch: the signal goes to the process the supervisor is
\* waiting for, whichever command the caller passed.
KillVMWatchCurrent(h) ==
    LET t == IF h.ref = "cmd" /\ pc = "Wait" THEN CmdRef(i) ELSE h IN
    /\ Len(kills) < MaxKills
    /\ h.ref = "cmd" => cmds[h.n].made
    /\ kills' = Append(kills, [cmd |-> h, before |-> CmdOf(h).state,
                               ret |-> KillReturn(t), signalled |-> KillSignals(t)])
    /\ cmds' = IF KillSignals(t) /\ CmdOf(t).state = "running"
               THEN [cmds EXCEPT ![t.n].state = "exited", ![t.n].exit = "signal: killed"]
               ELSE cmds
    /\ UNCHANGED <<pc, i, pid, vmWatchErr, combinedOutput, channel, sent, outcomes, probing>>

KillVMWatch(h) ==
    /\ Len(kills) < MaxKills
    /\ h.ref = "cmd" => cmds[h.n].made
    /\ kills' = Append(kills, [cmd |-> h, before |-> CmdOf(h).state,
                               ret |-> KillReturn(h), signalled |-> KillSignals(h)])
    /\ cmds' = IF KillSignals(h) /\ CmdOf(h).state = "running"
               THEN [cmds EXCEPT ![h.n].state = "exited", ![h.n].exit = "signal: killed"]
               ELSE cmds
    /\ UNCHANGED <<pc, i, pid, vmWatchErr, combinedOutput, channel, sent, outcomes, probing>>

-----------------------------------------------------------------------------

Next ==
    \/ Run
    \/ LoopEnter
    \/ LoopExit
    \/ SetupFail
    \/ SetupOk
    \/ StartFail
    \/ StartOk
    \/ WaitReturn
    \/ SendResult
    \/ Receive
    \/ \E k \in Attempts : ProcessOutput(k)
    \/ \E k \in Attempts : ProcessExit(k)
    \/ \E h \in KillArgs : KillVMWatch(h)

Spec == Init /\ [][Next]_vars

\* The steps of executeVMWatch once it is invoked.
SupervisorStep ==
    \/ LoopEnter
    \/ LoopExit
    \/ SetupFail
    \/ SetupOk
    \/ StartFail
    \/ StartOk
    \/ WaitReturn
    \/ SendResult

\* Next with the caller of killVMWatch making at most MaxFairKills calls.
FairNext ==
    \/ Run
    \/ SupervisorStep
    \/ Receive
    \/ \E k \in Attempts : ProcessOutput(k)
    \/ \E k \in Attempts : ProcessExit(k)
    \/ \E h \in KillArgs : Len(kills) < MaxFairKills /\ KillVMWatch(h)

\* The goroutine of executeVMWatch is scheduled whenever it can take a step,
\* and every started watcher process exits at some time.
FairSpec ==
    /\ Init
    /\ [][FairNext]_vars
    /\ WF_vars(SupervisorStep)
    /\ WF_vars(\E k \in Attempts : ProcessExit(k))

-----------------------------------------------------------------------------
(* The health probes *)

\* The strings the code compares the protocol with and builds addresses of.
StrTcp == <<"t", "c", "p">>
StrHttp == <<"h", "t", "t", "p">>
StrHttps == <<"h", "t", "t", "p", "s">>
StrLocalhost == <<"l", "o", "c", "a", "l", "h", "o", "s", "t">>
StrSchemeSep == <<":", "/", "/">>

\* The settings the probes are built from: the three protocols, no protocol,
\* two other values; no port, the two default ports, another port; request
\* paths with and without a leading slash.
Protocols == {StrTcp, StrHttp, StrHttps, <<>>, <<"u", "d", "p">>, <<"H", "T", "T", "P">>}
Ports == {0, 80, 443, 8443}
Paths == {<<>>, <<"s", "t", "a", "t", "u", "s">>, <<"/", "s", "t", "a", "t", "u", "s">>, <<"h", "e", "a", "l", "t", "h", "z">>, <<"/", "/", "x">>}
Configs == [protocol : Protocols, port : Ports, requestPath : Paths]

Digits == <<"0", "1", "2", "3", "4", "5", "6", "7", "8", "9">>

\* strconv.Itoa for a port (not negative).
RECURSIVE Itoa(_)
Itoa(n) ==
    IF n < 10 THEN <<Digits[n + 1]>>
    ELSE Itoa(n \div 10) \o <<Digits[(n % 10) + 1]>>

\* strings.TrimPrefix.
TrimPrefix(str, prefix) ==
    IF Len(str) >= Len(prefix) /\ SubSeq(str, 1, Len(prefix)) = prefix
    THEN SubSeq(str, Len(prefix) + 1, Len(str))
    ELSE str

\* Variant of PortString: the suffix is left out for port 0 only.
PortStringNoDefaults(protocol, port) ==
    IF port # 0 THEN <<":">> \o Itoa(port) ELSE <<>>

\* Lines 297-302: portString.
PortString(protocol, port) ==
    IF protocol = StrHttp /\ port # 0 /\ port # 80 THEN <<":">> \o Itoa(port)
    ELSE IF protocol = StrHttps /\ port # 0 /\ port # 443 THEN <<":">> \o Itoa(port)
    ELSE <<>>

\* Lines 272-308: NewHttpHealthProbe.
NewHttpHealthProbe(protocol, requestPath, port) ==
    [kind |-> "http",
     Address |-> protocol \o StrSchemeSep \o StrLocalhost \o PortString(protocol, port)
                   \o <<"/">> \o TrimPrefix(requestPath, <<"/">>),
     client |-> IF protocol = StrHttps THEN "https, InsecureSkipVerify"
                ELSE IF protocol = StrHttp THEN "http" ELSE "none"]

\* Variant of NewHealthProbe: case "http" does not fall through to "https".
NewHealthProbeNoFallthrough(c) ==
    IF c.protocol = StrTcp
    THEN [kind |-> "tcp", Address |-> StrLocalhost \o <<":">> \o Itoa(c.port),
          client |-> "none"]
    ELSE IF c.protocol = StrHttps
    THEN NewHttpHealthProbe(c.protocol, c.requestPath, c.port)
    ELSE [kind |-> "default", Address |-> <<>>, client |-> "none"]

\* Lines 226-246: NewHealthProbe.
NewHealthProbe(c) ==
    IF c.protocol = StrTcp
    THEN [kind |-> "tcp", Address |-> StrLocalhost \o <<":">> \o Itoa(c.port),
          client |-> "none"]
    ELSE IF c.protocol = StrHttp \/ c.protocol = StrHttps
    THEN NewHttpHealthProbe(c.protocol, c.requestPath, c.port)
    ELSE [kind |-> "default", Address |-> <<>>, client |-> "none"]

\* What the network can do to a connection attempt or a request.
NetOutcomes == {"ok", "refused", "unreachable", "timeout"}

\* What evaluate of the TCP probe meets: the outcome of net.DialTimeout and
\* whether the connection is a *net.TCPConn.
TcpEnvs ==
    [kind : {"tcp"}, net : NetOutcomes, isTCPConn : BOOLEAN, request : {"none"},
     code : {0}, body : {"none"}]

\* What evaluate of the HTTP probe meets: whether http.NewRequest accepts the
\* address, the outcome of HttpClient.Do ("redirect": noRedirect refused to
\* follow one), the status code, and the body: unreadable, not JSON, or a JSON
\* object with this ApplicationHealthState ("" when the field is missing).
HttpBodies ==
    {"unreadable", "malformed", "", "Healthy", "Unhealthy", "Unknown", "Initializing",
     "Bogus"}

HttpEnvs ==
    [kind : {"http"}, net : NetOutcomes \cup {"redirect"}, isTCPConn : {FALSE},
     request : {"ok", "invalid"}, code : {199, 200, 299, 300},
     body : HttpBodies]

\* What a default probe's evaluate would meet if it looked.
DefaultEnvs ==
    [kind : {"default"}, net : NetOutcomes, isTCPConn : {FALSE}, request : {"none"},
     code : {0}, body : {"none"}]

\* An evaluation: what was met, and the (HealthStatus, error) returned.
Evaluation(env, status, err) ==
    [kind |-> env.kind, net |-> env.net, isTCPConn |-> env.isTCPConn,
     request |-> env.request, code |-> env.code, body |-> env.body,
     status |-> status, err |-> err]

\* Line 356.
errUnableToConvertType == "Unable to convert type"

\* Variant of TcpEvaluate: a connection that is no *net.TCPConn is reported
\* as an unhealthy result without an error.
TcpEvaluateNoConvertError(env) ==
    IF env.net # "ok" THEN Evaluation(env, "Unhealthy", "nil")
    ELSE IF ~env.isTCPConn THEN Evaluation(env, "Unhealthy", "nil")
    ELSE Evaluation(env, "Healthy", "nil")

\* Lines 248-262: TcpHealthProbe.evaluate.
TcpEvaluate(env) ==
    IF env.net # "ok" THEN Evaluation(env, "Unhealthy", "nil")
    ELSE IF ~env.isTCPConn THEN Evaluation(env, "Unhealthy", errUnableToConvertType)
    ELSE Evaluation(env, "Healthy", "nil")

\* Variant of StatusOutside2xx: 299 counts as outside.
StatusOutside2xxOffByOne(code) == code < 200 \/ code >= 299

\* Line 327.
StatusOutside2xx(code) == code < 200 \/ code > 299

\* ProbeResponse.validate: the state is not empty and is one of the
\* enumerated HealthStatus values.
Validate(state) ==
    IF state \in {"Initializing", "Healthy", "Unhealthy", "Unknown"} THEN "nil"
    ELSE "validation"

\* Variant of HttpEvaluate: a failed request is reported without its error.
HttpEvaluateDropsTransportError(env) ==
    IF env.request # "ok" THEN Evaluation(env, "Unknown", "request")
    ELSE IF env.net # "ok" THEN Evaluation(env, "Unknown", "nil")
    ELSE IF StatusOutside2xx(env.code) THEN Evaluation(env, "Unknown", "nil")
    ELSE IF env.body = "unreadable" THEN Evaluation(env, "Unknown", "read")
    ELSE IF env.body = "malformed" THEN Evaluation(env, "Unknown", "json")
    ELSE IF Validate(env.body) # "nil" THEN Evaluation(env, "Unknown", Validate(env.body))
    ELSE Evaluation(env, env.body, "nil")

\* Lines 310-344: HttpHealthProbe.evaluate.
HttpEvaluate(env) ==
    IF env.request # "ok" THEN Evaluation(env, "Unknown", "request")
    ELSE IF env.net # "ok" THEN Evaluation(env, "Unknown", "transport")
    ELSE IF StatusOutside2xx(env.code) THEN Evaluation(env, "Unknown", "nil")
    ELSE IF env.body = "unreadable" THEN Evaluation(env, "Unknown", "read")
    ELSE IF env.body = "malformed" THEN Evaluation(env, "Unknown", "json")
    ELSE IF Validate(env.body) # "nil" THEN Evaluation(env, "Unknown", Validate(env.body))
    ELSE Evaluation(env, env.body, "nil")

\* Lines 366-368: DefaultHealthProbe.evaluate.
DefaultEvaluate(env) == Evaluation(env, "Healthy", "nil")

\* The probe is built once, from the settings.
Construct ==
    /\ probe.kind = "none"
    /\ probe' = NewHealthProbe(cfg)
    /\ UNCHANGED <<supervisor, cmds, kills, cfg, evald>>

\* The caller's polling loop calls evaluate on the probe.
EvaluateTcp ==
    /\ probe.kind = "tcp"
    /\ \E env \in TcpEnvs : evald' = TcpEvaluate(env)
    /\ UNCHANGED <<supervisor, cmds, kills, cfg, probe>>

EvaluateHttp ==
    /\ probe.kind = "http"
    /\ \E env \in HttpEnvs : evald' = HttpEvaluate(env)
    /\ UNCHANGED <<supervisor, cmds, kills, cfg, probe>>

EvaluateDefault ==
    /\ probe.kind = "default"
    /\ \E env \in DefaultEnvs : evald' = DefaultEvaluate(env)
    /\ UNCHANGED <<supervisor, cmds, kills, cfg, probe>>

ProbeInit ==
    /\ SupervisorInit
    /\ cfg \in Configs
    /\ probe = NoProbe
    /\ evald = NoEval

ProbeNext ==
    \/ Construct
    \/ EvaluateTcp
    \/ EvaluateHttp
    \/ EvaluateDefault

ProbeSpec == ProbeInit /\ [][ProbeNext]_vars

-----------------------------------------------------------------------------
(* Properties *)

Alive(k) == cmds[k].state \in {"running", "exited"}

Started == {k \in Attempts : cmds[k].process # NoPid}

OutcomeIs(k, o) == k <= Len(outcomes) /\ outcomes[k] = o

InLoop == pc \in {"LoopCheck", "Setup", "Start", "Wait"}

\* C1: the result channel never holds more than one message of the run, the
\* run never sends more than one, and once it has returned it has sent
\* exactly one.
C1_ExactlyOneWrite ==
    /\ Len(sent) <= 1
    /\ Len(channel) <= Len(sent)
    /\ pc = "Returned" => Len(sent) = 1

\* C1 witness: a run with a setup failure, a start failure and a process exit
\* has returned.
C1_Witness ==
    /\ pc = "Returned"
    /\ Len(sent) = 1
    /\ \E a, b, c \in Attempts :
         OutcomeIs(a, "SetupFailed") /\ OutcomeIs(b, "StartFailed") /\ OutcomeIs(c, "Exited")

\* C2: when every attempt's setup and start succeed and every process exits,
\* the result is written only after exactly VMWatchMaxProcessAttempts
\* processes were started, and it is the one Failed result.
C2_RetryBound ==
    /\ Cardinality(Started) <= VMWatchMaxProcessAttempts
    /\ (pc \in {"Defer", "Returned"} /\ \A k \in 1..Len(outcomes) : outcomes[k] = "Exited")
         => /\ Cardinality(Started) = VMWatchMaxProcessAttempts
            /\ Len(outcomes) = VMWatchMaxProcessAttempts
    /\ (Len(sent) > 0 /\ \A k \in 1..Len(outcomes) : outcomes[k] = "Exited")
         => /\ Cardinality(Started) = VMWatchMaxProcessAttempts
            /\ Len(sent) = 1
            /\ sent[1].Status = "Failed"

\* C2 witness: every attempt ended in a process exit and the result is sent.
C2_Witness ==
    /\ Len(sent) = 1
    /\ Len(outcomes) = VMWatchMaxProcessAttempts
    /\ \A k \in 1..Len(outcomes) : outcomes[k] = "Exited"

KindOf(o) ==
    CASE o = "SetupFailed" -> "setup"
      [] o = "StartFailed" -> "start"
      [] o = "Exited" -> "exit"

\* C3: every message sent has Status Failed and carries the error recorded by
\* the last attempt of the run (its time stamp and its kind), not an earlier
\* attempt's.
C3_FailedWithLastError ==
    \A m \in 1..Len(sent) :
        /\ sent[m].Status = "Failed"
        /\ sent[m].Error.kind # "nil"
        /\ sent[m].Error.stamp = VMWatchMaxProcessAttempts
        /\ Len(outcomes) = VMWatchMaxProcessAttempts
        /\ sent[m].Error.kind = KindOf(outcomes[VMWatchMaxProcessAttempts])

\* C3 witness: the result is sent after a run whose last attempt failed in
\* setup and whose earlier attempts recorded other errors.
C3_Witness ==
    /\ Len(sent) = 1
    /\ OutcomeIs(1, "Exited")
    /\ OutcomeIs(VMWatchMaxProcessAttempts, "SetupFailed")
    /\ sent[1].Error.kind = "setup"

\* C4: at most one watcher process is running; a process that has not been
\* waited on belongs to the attempt the supervisor is waiting in; and when an
\* attempt sets up or starts, every earlier process is waited on.
C4_NoOverlap ==
    /\ Cardinality({k \in Attempts : cmds[k].state = "running"}) <= 1
    /\ \A k \in Attempts : Alive(k) => pc = "Wait" /\ i = k
    /\ pc \in {"Setup", "Start"} =>
         \A k \in Attempts : k < i => cmds[k].state \in {"none", "reaped"}

\* C4 witness: the last attempt is starting after two processes exited.
C4_Witness ==
    /\ pc = "Start"
    /\ i = VMWatchMaxProcessAttempts
    /\ \A k \in Attempts : k < i => cmds[k].state = "reaped"

\* C5: a message is sent only after the last attempt has ended; while the
\* loop is running or a watcher process is alive nothing was sent and the
\* channel is empty.
C5_NothingBeforeExhaustion ==
    /\ Len(sent) > 0 =>
         /\ Len(outcomes) = VMWatchMaxProcessAttempts
         /\ \A k \in Attempts : ~Alive(k)
    /\ (InLoop \/ \E k \in Attempts : Alive(k)) => sent = <<>> /\ channel = <<>>
    /\ pc = "Defer" => Len(outcomes) = VMWatchMaxProcessAttempts

\* C5 witness: the last attempt's process is running and nothing is sent.
C5_Witness ==
    /\ pc = "Wait"
    /\ i = VMWatchMaxProcessAttempts
    /\ cmds[i].state = "running"
    /\ sent = <<>>

\* C6: an attempt that failed in setup started no process and used one unit
\* of the budget, and the loop goes on after it: the supervisor gives up only
\* after VMWatchMaxProcessAttempts attempts, also when every setup fails,
\* and then sends one Failed result.
C6_SetupFailureContinues ==
    /\ \A k \in 1..Len(outcomes) :
         outcomes[k] = "SetupFailed" => ~cmds[k].made /\ cmds[k].process = NoPid
    /\ InLoop => Len(outcomes) = i - 1
    /\ (\E k \in 1..Len(outcomes) : outcomes[k] = "SetupFailed") =>
         /\ pc \in {"Defer", "Returned"} => Len(outcomes) = VMWatchMaxProcessAttempts
         /\ pc = "Returned" => Len(sent) = 1 /\ sent[1].Status = "Failed"

\* C6 witness: every setup failed and the run has returned.
C6_Witness ==
    /\ pc = "Returned"
    /\ Len(outcomes) = VMWatchMaxProcessAttempts
    /\ \A k \in 1..Len(outcomes) : outcomes[k] = "SetupFailed"
    /\ Len(sent) = 1

\* C7: an error recorded for a setup failure carries the "no PID" marker -1.
C7_SetupErrorHasNoPid ==
    vmWatchErr.kind = "setup" => vmWatchErr.pid = NoPid

KilledRunning(k) ==
    \E j \in 1..Len(kills) : kills[j].cmd = CmdRef(k) /\ kills[j].before = "running"

\* C8: after killVMWatch on the running process of attempt k the process has
\* ended by the signal; until it is waited on the supervisor is in the Wait of
\* attempt k, which can return; once waited on, attempt k is recorded as
\* Exited with the signal as its error; and the supervisor still gives up
\* only after the whole budget: a kill of an attempt that is not the last is
\* followed by the next attempt.
C8_KillEndsOnlyTheAttempt ==
    \A k \in Attempts : KilledRunning(k) =>
        /\ cmds[k].state \in {"exited", "reaped"}
        /\ cmds[k].exit = "signal: killed"
        /\ cmds[k].state = "exited" => pc = "Wait" /\ i = k /\ ENABLED WaitReturn
        /\ cmds[k].state = "reaped" => OutcomeIs(k, "Exited")
        /\ (cmds[k].state = "reaped" /\ k < VMWatchMaxProcessAttempts /\ Len(outcomes) = k)
             => InLoop /\ i = k + 1 /\ (pc = "LoopCheck" => ENABLED LoopEnter)
        /\ pc \in {"Defer", "Returned"} => Len(outcomes) = VMWatchMaxProcessAttempts
        /\ (Len(sent) > 0 /\ k = VMWatchMaxProcessAttempts) =>
             sent[1] = [Status |-> "Failed",
                        Error |-> [kind |-> "exit", stamp |-> k, pid |-> cmds[k].process,
                                   err |-> "signal: killed", output |-> sent[1].Error.output]]

\* C8 witness: the process of attempt 1 was killed while running and the
\* process of attempt 2 is running.
C8_Witness ==
    /\ KilledRunning(1)
    /\ cmds[2].state = "running"

\* C9: a killVMWatch call on nil or on a command whose process was never
\* started returns nil, sends no signal and changes neither the supervisor's
\* state nor any command.
C9_KillNeverStartedIsNoOp ==
    [][(Len(kills') = Len(kills) + 1 /\ kills'[Len(kills')].before = "none") =>
          /\ kills'[Len(kills')].ret = "nil"
          /\ ~kills'[Len(kills')].signalled
          /\ UNCHANGED <<pc, i, pid, vmWatchErr, combinedOutput, channel, sent,
                         outcomes, cmds>>]_vars

\* C9 witness: killVMWatch was called on nil, on a command of the caller that
\* was never started, and on a command of the supervisor before its start.
C9_Witness ==
    /\ Len(kills) = MaxKills
    /\ \E j \in 1..Len(kills) : kills[j].cmd \in {NilCmd, OwnCmd}
    /\ \E j \in 1..Len(kills) : kills[j].cmd.ref = "cmd" /\ kills[j].before = "none"

\* C10: every killVMWatch call made when the command's process is not running
\* returns no error.
C10_KillIdempotent ==
    \A j \in 1..Len(kills) : kills[j].before # "running" => kills[j].ret = "nil"

\* C11: an invoked run that has not returned can always take a step, except
\* in the Wait on a process that is still running; and under fairness, with
\* every started process exiting at some time, an invoked run returns after
\* having sent its result.
C11_RunTerminates ==
    /\ []((pc \notin {"NotStarted", "Returned"} /\ ~ENABLED SupervisorStep)
            => (pc = "Wait" /\ cmds[i].state = "running"))
    /\ (pc = "LoopCheck") ~> (pc = "Returned" /\ Len(sent) = 1)

\* C11 witness: the run has returned after waiting for a process in every
\* attempt.
C11_Witness ==
    /\ pc = "Returned"
    /\ \A k \in Attempts : cmds[k].state = "reaped"
    /\ \E k \in Attempts : cmds[k].exit = "signal: killed"

\* C17: the output in an error recorded for a start failure or a process
\* exit is output of the process of the attempt that recorded the error only
\* (the error's time stamp is that attempt's), in the recorded and in the
\* delivered error.
C17_OutputAttemptScoped ==
    /\ vmWatchErr.kind \in {"start", "exit"} => vmWatchErr.output \subseteq {vmWatchErr.stamp}
    /\ \A m \in 1..Len(sent) :
         sent[m].Error.kind \in {"start", "exit"} =>
             sent[m].Error.output \subseteq {sent[m].Error.stamp}
    /\ pc = "Wait" => combinedOutput \subseteq {i}

\* C17 witness: the process of attempt 1 wrote output, attempt 2 failed in
\* setup, and the exit of attempt 3 is recorded with that process's output.
C17_Witness ==
    /\ vmWatchErr.kind = "exit"
    /\ vmWatchErr.stamp = 3
    /\ vmWatchErr.output = {3}
    /\ OutcomeIs(1, "Exited")
    /\ OutcomeIs(2, "SetupFailed")

AttemptOutcomes == {"SetupFailed", "StartFailed", "Exited"}

\* The supervisor's state in the terms of the state machine
\* NotStarted, Attempting(n), SetupFailed(n), StartFailed(n), Exited(n), GaveUp.
SupState(p, n, o) ==
    IF p = "NotStarted" \/ (p = "LoopCheck" /\ o = <<>>) THEN <<"NotStarted", 0>>
    ELSE IF p \in {"Setup", "Start", "Wait"} THEN <<"Attempting", n>>
    ELSE IF p = "LoopCheck" THEN <<o[Len(o)], n - 1>>
    ELSE <<"GaveUp", 0>>

SupTransition(a, b) ==
    \/ a = b
    \/ a = <<"NotStarted", 0>> /\ b = <<"Attempting", 1>>
    \/ a[1] = "Attempting" /\ b[1] \in AttemptOutcomes /\ b[2] = a[2]
    \/ a[1] \in AttemptOutcomes /\ a[2] < VMWatchMaxProcessAttempts
         /\ b = <<"Attempting", a[2] + 1>>
    \/ a[1] \in AttemptOutcomes /\ a[2] = VMWatchMaxProcessAttempts
         /\ b = <<"GaveUp", 0>>

\* C18: every step of the supervisor is a transition of the state machine
\* (NotStarted to Attempting(1), Attempting(n) to an outcome of attempt n, an
\* outcome of attempt n to Attempting(n+1) below the budget and to GaveUp at
\* the budget, GaveUp to nothing else), and the attempt index stays within
\* 1..VMWatchMaxProcessAttempts.
C18_StateMachine ==
    /\ [][SupTransition(SupState(pc, i, outcomes), SupState(pc', i', outcomes'))]_vars
    /\ [](SupState(pc, i, outcomes)[1] \in AttemptOutcomes \cup {"Attempting"}
            => SupState(pc, i, outcomes)[2] \in Attempts)
    /\ [](SupState(pc, i, outcomes)[1] \in AttemptOutcomes
            => Len(outcomes) = SupState(pc, i, outcomes)[2])

\* C18 witness: the supervisor is about to send after attempts that ended in
\* each of the three outcomes.
C18_Witness ==
    /\ pc = "Defer"
    /\ outcomes = <<"StartFailed", "Exited", "SetupFailed">>

\* C19: once an attempt has ended, vmWatchErr is the non-nil error that
\* attempt recorded, also for an exit for which cmd.Wait reports nil, and the
\* Error of every delivered result is non-nil.
C19_ErrorNeverNil ==
    /\ Len(outcomes) >= 1 =>
         /\ vmWatchErr.kind # "nil"
         /\ vmWatchErr # NilErr
         /\ vmWatchErr.stamp = Len(outcomes)
    /\ \A m \in 1..Len(sent) : sent[m].Error # NilErr /\ sent[m].Error.kind # "nil"

\* C19 witness: the delivered error is that of a process that exited with
\* status 0.
C19_Witness ==
    /\ Len(sent) = 1
    /\ sent[1].Error.kind = "exit"
    /\ sent[1].Error.err = "nil"

\* C20: setup makes a new command without a process and leaves the commands
\* of earlier attempts alone; a killVMWatch call changes no command but the
\* one it was given, and when that command's process is not running it
\* changes nothing of the commands or the supervisor (no attempt is used); a
\* process ends by the kill signal only after a kill on its own command.
C20_KillOnlyItsOwnAttempt ==
    /\ [][(pc = "Setup" /\ pc' = "Start") =>
            /\ cmds'[i].process = NoPid
            /\ \A j \in Attempts : j # i => cmds'[j] = cmds[j]]_vars
    /\ [][Len(kills') = Len(kills) + 1 =>
            /\ \A j \in Attempts :
                 kills'[Len(kills')].cmd # CmdRef(j) => cmds'[j] = cmds[j]
            /\ kills'[Len(kills')].before # "running" =>
                 UNCHANGED <<cmds, pc, i, pid, vmWatchErr, combinedOutput, channel,
                             sent, outcomes>>]_vars
    /\ [](\A k \in Attempts : cmds[k].exit = "signal: killed" => KilledRunning(k))

\* C20 witness: killVMWatch was called on the command of attempt 1 after its
\* process was waited on, and the process of attempt 2 is running.
C20_Witness ==
    /\ \E j \in 1..Len(kills) : kills[j].cmd = CmdRef(1) /\ kills[j].before = "reaped"
    /\ i = 2
    /\ pc = "Wait"
    /\ cmds[2].state = "running"

\* The decimal text of each port of Ports.
PortText(port) ==
    CASE port = 0 -> <<"0">>
      [] port = 80 -> <<"8", "0">>
      [] port = 443 -> <<"4", "4", "3">>
      [] port = 8443 -> <<"8", "4", "4", "3">>

\* C12: a protocol other than tcp, http and https (also none) gives the
\* default probe, and whatever the network does its evaluate returns
\* (Healthy, nil); tcp gives a TCP probe on localhost:<port>; http and https
\* give an HTTP probe.
C12_ProbeSelection ==
    probe.kind # "none" =>
        /\ cfg.protocol \notin {StrTcp, StrHttp, StrHttps} => probe.kind = "default"
        /\ cfg.protocol = StrTcp =>
             /\ probe.kind = "tcp"
             /\ probe.Address = StrLocalhost \o <<":">> \o PortText(cfg.port)
        /\ cfg.protocol \in {StrHttp, StrHttps} => probe.kind = "http"
        /\ (probe.kind = "default" /\ evald # NoEval) =>
             evald.status = "Healthy" /\ evald.err = "nil"

\* C12 witness: the protocol HTTP in capitals gave the default probe, which
\* reported Healthy while connections are refused.
C12_Witness ==
    /\ cfg.protocol = <<"H", "T", "T", "P">>
    /\ probe.kind = "default"
    /\ evald.net = "refused"
    /\ evald.status = "Healthy"

\* C13: the TCP probe returns (Unhealthy, nil) when the dial fails,
\* (Healthy, nil) when it succeeds with a *net.TCPConn, and the error
\* "Unable to convert type" when the connection is of another type; an
\* Unhealthy result without error therefore always is a failed dial.
C13_TcpEvaluate ==
    evald.kind = "tcp" =>
        /\ evald.net # "ok" => evald.status = "Unhealthy" /\ evald.err = "nil"
        /\ (evald.net = "ok" /\ evald.isTCPConn) =>
             evald.status = "Healthy" /\ evald.err = "nil"
        /\ (evald.net = "ok" /\ ~evald.isTCPConn) => evald.err = "Unable to convert type"
        /\ (evald.status = "Unhealthy" /\ evald.err = "nil") => evald.net # "ok"

\* C13 witness: the dial succeeded with a connection that is no *net.TCPConn.
C13_Witness ==
    /\ evald.kind = "tcp"
    /\ evald.net = "ok"
    /\ ~evald.isTCPConn
    /\ evald.err # "nil"

ValidStates == {"Initializing", "Healthy", "Unhealthy", "Unknown"}

\* C14: the HTTP probe returns, in this order: (Unknown, error) for a request
\* that cannot be built or sent; (Unknown, nil) for a status code outside
\* 200..299 whatever the body; (Unknown, error) for a body that cannot be
\* read, decoded or validated; else the body's state with a nil error.  A
\* non-nil error comes with Unknown only, and an invalid payload gives
\* Unknown.
C14_HttpEvaluate ==
    evald.kind = "http" =>
        LET sent2 == evald.request = "ok" /\ evald.net = "ok"
            in2xx == evald.code >= 200 /\ evald.code <= 299
            valid == evald.body \in ValidStates
        IN  /\ ~sent2 => evald.status = "Unknown" /\ evald.err # "nil"
            /\ (sent2 /\ ~in2xx) => evald.status = "Unknown" /\ evald.err = "nil"
            /\ (sent2 /\ in2xx /\ ~valid) => evald.status = "Unknown" /\ evald.err # "nil"
            /\ (sent2 /\ in2xx /\ valid) => evald.status = evald.body /\ evald.err = "nil"
            /\ evald.err # "nil" => evald.status = "Unknown"
            /\ ~valid => evald.status = "Unknown"

\* C14 witness: status code 299 with a body that reports Unhealthy.
C14_Witness ==
    /\ evald.kind = "http"
    /\ evald.request = "ok"
    /\ evald.net = "ok"
    /\ evald.code = 299
    /\ evald.body = "Unhealthy"
    /\ evald.status = "Unhealthy"

\* An evaluation that met one of: unreachable port, refused connection,
\* non-2xx status.
HealthSignal(e) ==
    \/ e.kind = "tcp" /\ e.net \in {"refused", "unreachable"}
    \/ e.kind = "http" /\ e.request = "ok" /\ e.net \in {"refused", "unreachable"}
    \/ e.kind = "http" /\ e.request = "ok" /\ e.net = "ok"
         /\ (e.code < 200 \/ e.code > 299)

\* C15: for the probes that use the network, an unreachable port, a refused
\* connection and a non-2xx status give Unhealthy or Unknown with a nil error.
C15_SignalsHaveNilError ==
    HealthSignal(evald) =>
        /\ evald.status \in {"Unhealthy", "Unknown"}
        /\ evald.err = "nil"

\* C15 as amended: an unreachable port or refused connection gives
\* (Unhealthy, nil) from the TCP probe, and (Unknown, error) with a non-nil
\* error from the HTTP probe; a non-2xx status gives (Unknown, nil).
C15_SignalsByVariant ==
    HealthSignal(evald) =>
        /\ evald.kind = "tcp" => evald.status = "Unhealthy" /\ evald.err = "nil"
        /\ (evald.kind = "http" /\ evald.net = "ok") =>
             evald.status = "Unknown" /\ evald.err = "nil"
        /\ (evald.kind = "http" /\ evald.net # "ok") =>
             evald.status = "Unknown" /\ evald.err # "nil"

\* C15 witness: an HTTP probe whose connection was refused.
C15_Witness ==
    /\ evald.kind = "http"
    /\ evald.request = "ok"
    /\ evald.net = "refused"
    /\ evald.status = "Unknown"
    /\ evald.err # "nil"

\* C16: the address of an HTTP probe is scheme://localhost, then ":" and the
\* port unless the port is 0 or the scheme's default (80 for http, 443 for
\* https), then "/" and the request path without its leading slash; a path
\* without a leading slash gives the same address with the slash added; and
\* the two examples hold.
C16_HttpAddress ==
    probe.kind = "http" =>
        LET default == IF cfg.protocol = StrHttp THEN 80 ELSE 443
            suffix == IF cfg.port = 0 \/ cfg.port = default THEN <<>>
                      ELSE <<":">> \o PortText(cfg.port)
            path == IF cfg.requestPath # <<>> /\ Head(cfg.requestPath) = "/"
                    THEN Tail(cfg.requestPath) ELSE cfg.requestPath
        IN  /\ probe.Address = cfg.protocol \o StrSchemeSep \o StrLocalhost \o suffix
                                 \o <<"/">> \o path
            /\ \A q \in Paths : (q = <<>> \/ Head(q) # "/") =>
                 NewHealthProbe([cfg EXCEPT !.requestPath = <<"/">> \o q]).Address
                   = NewHealthProbe([cfg EXCEPT !.requestPath = q]).Address
            /\ (cfg.protocol = StrHttp /\ cfg.port = 80
                  /\ cfg.requestPath \in {<<"/", "s", "t", "a", "t", "u", "s">>, <<"s", "t", "a", "t", "u", "s">>})
                 => probe.Address = <<"h", "t", "t", "p", ":", "/", "/", "l", "o", "c", "a", "l", "h", "o",
                                     "s", "t", "/", "s", "t", "a", "t", "u", "s">>
            /\ (cfg.protocol = StrHttps /\ cfg.port = 8443
                  /\ cfg.requestPath = <<"h", "e", "a", "l", "t", "h", "z">>)
                 => probe.Address = <<"h", "t", "t", "p", "s", ":", "/", "/", "l", "o", "c", "a", "l", "h",
                                     "o", "s", "t", ":", "8", "4", "4", "3", "/", "h", "e", "a", "l", "t",
                                     "h", "z">>

\* C16 witness: the probe for https, port 8443, path healthz is built.
C16_Witness ==
    /\ probe.kind = "http"
    /\ cfg.protocol = StrHttps
    /\ cfg.port = 8443
    /\ cfg.requestPath = <<"h", "e", "a", "l", "t", "h", "z">>

=============================================================================
